---- MODULE Spec2Model ----
(***************************************************************************)
(* State-machine model of src/App.tsx: the App component's React state,    *)
(* the three localStorage blobs it reads and writes, the FileReader reads  *)
(* and handleAnalyzeClick invocations that are suspended at an await, and  *)
(* the wall clock that ids and timestamps are taken from.                  *)
(*                                                                         *)
(* A nullable value (T | null, or a localStorage key that may be absent)   *)
(* is a sequence of length 0 (null) or 1 (the value).                      *)
(***************************************************************************)
EXTENDS Integers, Sequences, FiniteSets, TLC

VARIABLES
    imagePreview,        \* useState<string | null>            (line 30)
    analysisResult,      \* useState<AnalysisResult | null>    (line 31)
    isLoading,           \* useState<boolean>                  (line 32)
    error,               \* useState<string | null>            (line 33)
    currentUser,         \* useState<User | null>              (line 34)
    historicalAnalyses,  \* useState<HistoricalAnalysis[]>     (line 35)
    authError,           \* useState<string | null>            (line 36)
    lsUsers,             \* localStorage 'plant_health_users'
    lsCurrentUser,       \* localStorage 'plant_health_currentUser'
    lsAnalyses,          \* localStorage 'plant_health_analyses'
    calls,               \* handleAnalyzeClick invocations suspended at an await
    readers,             \* files whose FileReader has not fired onloadend yet
    now,                 \* the latest reading of the wall clock, Date.now()
    phase,               \* "mounting": rendered, useEffect not run yet; "ready"
    log                  \* history variable: every record created, with the
                         \* session at the moment it was created

vars == <<imagePreview, analysisResult, isLoading, error, currentUser,
          historicalAnalyses, authError, lsUsers, lsCurrentUser, lsAnalyses,
          calls, readers, now, phase, log>>

reactState == <<imagePreview, analysisResult, isLoading, error, currentUser,
                historicalAnalyses, authError>>
storage == <<lsUsers, lsCurrentUser, lsAnalyses>>

----------------------------------------------------------------------------
(* Bounds of the model. *)

\* The clock readings are 1..MaxClock; a reading is never less than the one
\* before it.
MaxClock == 2
\* Analyses that succeeded plus analyses in flight never exceed MaxAnalyses.
MaxAnalyses == 2

----------------------------------------------------------------------------
(* Values. *)

Null == <<>>
Some(v) == <<v>>
Val(o) == o[1]

\* JSON.stringify / JSON.parse of the plain objects the program stores: the
\* blob is a string, not the object, and parsing gives the object back.
JSONstringify(v) == [json |-> v]
JSONparse(s) == s.json

\* Template literals `user-${Date.now()}` and `analysis-${Date.now()}`; the
\* seeded admin's literal id 'admin-001' has the same shape.
TemplateId(prefix, n) == [prefix |-> prefix, n |-> n]

adminUser ==
    [id |-> TemplateId("admin-", 1), email |-> "admin@plant.health",
     password |-> "admin123", role |-> "admin"]

\* Inputs of the auth form. The whole program is explored with the admin and
\* one further account, the session handlers alone with two further accounts.
Emails == {"admin@plant.health", "alice@x.com", "bob@x.com"}
SoloEmails == {"admin@plant.health", "alice@x.com"}
Passwords == {"admin123", "pw1"}

\* Files offered to the uploader: a MIME type and the file's bytes.
Files == {[type |-> "image/png", bytes |-> "leafA"],
          [type |-> "image/jpeg", bytes |-> "leafB"]}

\* reader.readAsDataURL(file): "data:<type>;base64,<payload>".
readAsDataURL(file) ==
    [scheme |-> "data:", mime |-> file.type, encoding |-> ";base64,",
     payload |-> file.bytes]

\* fileToBase64(imagePreview) and the substring between ":" and ";".
fileToBase64(url) == url.payload
mimeTypeOf(url) == url.mime

\* What analyzePlantHealth resolves with for a request, the service finding
\* disease d ("None": healthy): an AnalysisResult (lines 192-200), of which
\* is_healthy and disease_name are kept; request records which payload the
\* result is the assessment of.
Diseases == {"Blight"}
analyzePlantHealth(base64Image, mimeType, d) ==
    [request |-> [image |-> base64Image, mimeType |-> mimeType],
     is_healthy |-> (d = "None"), disease_name |-> d]

\* What an await may reject with: an Error with a message, or a non-Error.
Rejections == {[isError |-> TRUE, message |-> "Inference failed"],
               [isError |-> FALSE, message |-> ""]}

\* err instanceof Error ? err.message : "An unknown error ..."  (line 93)
errorMessage(err) ==
    IF err.isError THEN err.message
    ELSE "An unknown error occurred during analysis."

\* new Date(t).toISOString()
toISOString(t) == [iso |-> t]

RemoveAt(s, i) == [j \in 1..(Len(s) - 1) |-> IF j < i THEN s[j] ELSE s[j + 1]]
Range(s) == {s[i] : i \in DOMAIN s}

----------------------------------------------------------------------------
(* Module load and mount. *)

\* initializeMockUsers (lines 14-24), as a function of the users blob.
initializeMockUsers(blob) ==
    IF blob = Null THEN Some(JSONstringify(<<adminUser>>)) ELSE blob

\* users = JSON.parse(localStorage.getItem('plant_health_users') || '[]')
readUsers == IF lsUsers = Null THEN <<>> ELSE JSONparse(Val(lsUsers))

\* The render (lines 142-181): which surface is shown, hence which handlers
\* the user can reach.
Surface ==
    IF currentUser = Null THEN "AuthPage"
    ELSE IF Val(currentUser).role = "admin" THEN "AdminDashboard"
    ELSE "UserWorkspace"

\* Faulty variant of analysesShown: every principal, the admin too, is given only the
\* records filed under its own email.
analysesShownOwnOnly ==
    IF currentUser = Null THEN <<>>
    ELSE SelectSeq(historicalAnalyses,
                   LAMBDA r : r.userEmail = Val(currentUser).email)

\* The history the render hands to a view (line 151): the whole in-memory
\* sequence to the AdminDashboard, nothing to the other surfaces.
analysesShown ==
    IF Surface = "AdminDashboard" THEN historicalAnalyses ELSE <<>>

\* First run of the program in a browser with empty storage: the module is
\* loaded (initializeMockUsers) and App is rendered with its initial state.
Init ==
    /\ imagePreview = Null
    /\ analysisResult = Null
    /\ isLoading = FALSE
    /\ error = Null
    /\ currentUser = Null
    /\ historicalAnalyses = <<>>
    /\ authError = Null
    /\ lsUsers = initializeMockUsers(Null)
    /\ lsCurrentUser = Null
    /\ lsAnalyses = Null
    /\ calls = <<>>
    /\ readers = {}
    /\ now = 1
    /\ phase = "mounting"
    /\ log = <<>>

\* Faulty variant of Restore: the session is restored, the history is not.
RestoreSessionOnly ==
    /\ phase = "mounting"
    /\ phase' = "ready"
    /\ currentUser' = IF lsCurrentUser # Null
                      THEN Some(JSONparse(Val(lsCurrentUser)))
                      ELSE currentUser
    /\ UNCHANGED <<imagePreview, analysisResult, isLoading, error,
                   historicalAnalyses, authError, storage, calls, readers,
                   now, log>>

\* The mount effect (lines 38-49).
Restore ==
    /\ phase = "mounting"
    /\ phase' = "ready"
    /\ currentUser' = IF lsCurrentUser # Null
                      THEN Some(JSONparse(Val(lsCurrentUser)))
                      ELSE currentUser
    /\ historicalAnalyses' = IF lsAnalyses # Null
                             THEN JSONparse(Val(lsAnalyses))
                             ELSE historicalAnalyses
    /\ UNCHANGED <<imagePreview, analysisResult, isLoading, error, authError,
                   storage, calls, readers, now, log>>

\* The page is reloaded: the suspended callbacks and the React state are gone,
\* the module is loaded again and App is rendered with its initial state.
Reload ==
    /\ phase = "ready"
    /\ imagePreview' = Null
    /\ analysisResult' = Null
    /\ isLoading' = FALSE
    /\ error' = Null
    /\ currentUser' = Null
    /\ historicalAnalyses' = <<>>
    /\ authError' = Null
    /\ lsUsers' = initializeMockUsers(lsUsers)
    /\ calls' = <<>>
    /\ readers' = {}
    /\ phase' = "mounting"
    /\ UNCHANGED <<lsCurrentUser, lsAnalyses, now, log>>

\* The readings Date.now() may give next.
ClockReadings == now..MaxClock

----------------------------------------------------------------------------
(* Session: handleLogin, handleRegister, handleLogout. *)

\* Faulty variant of matchesCredentials: the password is not compared.
matchesEmailOnly(u, email, password) == u.email = email

\* users.find(u => u.email === email && u.password === password)  (line 102)
matchesCredentials(u, email, password) ==
    u.email = email /\ u.password = password

findUser(users, email, password) ==
    LET hits == {i \in DOMAIN users : matchesCredentials(users[i], email, password)}
    IN  IF hits = {} THEN Null
        ELSE Some(users[CHOOSE i \in hits : \A j \in hits : i <= j])

\* const userData: User = { id, email, role }  (lines 104, 131)
userData(u) == [id |-> u.id, email |-> u.email, role |-> u.role]

\* Faulty variants of emailTaken: the check is missing; only the first record is
\* compared.
emailTakenNever(users, email) == FALSE
emailTakenByFirst(users, email) == users # <<>> /\ users[1].email = email

\* users.some(u => u.email === email)  (line 115)
emailTaken(users, email) == \E i \in DOMAIN users : users[i].email = email

\* Faulty variant of newUser: the role is not pinned to user.
newUserAsAdmin(email, password, t) ==
    [id |-> TemplateId("user-", t), email |-> email, password |-> password,
     role |-> "admin"]

\* The Credential Record handleRegister creates (lines 119-126).
newUser(email, password, t) ==
    [id |-> TemplateId("user-", t), email |-> email, password |-> password,
     role |-> "user"]

handleLogin(email, password) ==
    /\ phase = "ready"
    /\ Surface = "AuthPage"
    /\ LET user == findUser(readUsers, email, password)
       IN  IF user # Null
           THEN /\ authError' = Null
                /\ currentUser' = Some(userData(Val(user)))
                /\ lsCurrentUser' = Some(JSONstringify(userData(Val(user))))
           ELSE /\ authError' = Some("Invalid email or password.")
                /\ UNCHANGED <<currentUser, lsCurrentUser>>
    /\ UNCHANGED <<imagePreview, analysisResult, isLoading, error,
                   historicalAnalyses, lsUsers, lsAnalyses, calls, readers,
                   now, phase, log>>

\* Faulty variant of handleRegister: the new account is stored but not logged
\* in (lines 130-133 missing).
handleRegisterWithoutLogin(email, password, t) ==
    /\ phase = "ready"
    /\ Surface = "AuthPage"
    /\ LET users == readUsers
       IN  IF emailTaken(users, email)
           THEN /\ authError' = Some("An account with this email already exists.")
                /\ UNCHANGED <<lsUsers, now>>
           ELSE /\ authError' = Null
                /\ now' = t
                /\ lsUsers' = Some(JSONstringify(Append(users, newUser(email, password, t))))
    /\ UNCHANGED <<imagePreview, analysisResult, isLoading, error, currentUser,
                   historicalAnalyses, lsCurrentUser, lsAnalyses, calls,
                   readers, phase, log>>

\* handleRegister (lines 112-134); t is the reading of Date.now() at line 120.
handleRegister(email, password, t) ==
    /\ phase = "ready"
    /\ Surface = "AuthPage"
    /\ LET users == readUsers
       IN  IF emailTaken(users, email)
           THEN /\ authError' = Some("An account with this email already exists.")
                /\ UNCHANGED <<currentUser, lsUsers, lsCurrentUser, now>>
           ELSE LET u == newUser(email, password, t)
                IN  /\ authError' = Null
                    /\ now' = t
                    /\ lsUsers' = Some(JSONstringify(Append(users, u)))
                    /\ currentUser' = Some(userData(u))
                    /\ lsCurrentUser' = Some(JSONstringify(userData(u)))
    /\ UNCHANGED <<imagePreview, analysisResult, isLoading, error,
                   historicalAnalyses, lsAnalyses, calls, readers, phase, log>>

\* Faulty variant of handleLogout: the persisted marker is not removed.
handleLogoutKeepingMarker ==
    /\ phase = "ready"
    /\ Surface # "AuthPage"
    /\ currentUser' = Null
    /\ UNCHANGED <<imagePreview, analysisResult, isLoading, error,
                   historicalAnalyses, authError, storage, calls, readers,
                   now, phase, log>>

\* The Header, and so the logout button, is rendered for every principal.
handleLogout ==
    /\ phase = "ready"
    /\ Surface # "AuthPage"
    /\ currentUser' = Null
    /\ lsCurrentUser' = Null
    /\ UNCHANGED <<imagePreview, analysisResult, isLoading, error,
                   historicalAnalyses, authError, lsUsers, lsAnalyses, calls,
                   readers, now, phase, log>>

----------------------------------------------------------------------------
(* Analysis workspace: handleImageSelect, handleAnalyzeClick. *)

\* handleImageSelect (lines 52-60) up to reader.readAsDataURL(file).
handleImageSelect(file) ==
    /\ phase = "ready"
    /\ Surface = "UserWorkspace"
    /\ readers' = readers \cup {file}
    /\ UNCHANGED <<reactState, storage, calls, now, phase, log>>

\* Faulty variant of onloadend: the prior result and error are kept.
onloadendKeepingResult(file, ok) ==
    /\ phase = "ready"
    /\ file \in readers
    /\ readers' = readers \ {file}
    /\ imagePreview' = IF ok THEN Some(readAsDataURL(file)) ELSE Null
    /\ UNCHANGED <<analysisResult, error, isLoading, currentUser,
                   historicalAnalyses, authError, storage, calls, now, phase,
                   log>>

\* reader.onloadend (lines 54-58): reader.result is the data URL, or null when
\* the read failed.
onloadend(file, ok) ==
    /\ phase = "ready"
    /\ file \in readers
    /\ readers' = readers \ {file}
    /\ imagePreview' = IF ok THEN Some(readAsDataURL(file)) ELSE Null
    /\ analysisResult' = Null
    /\ error' = Null
    /\ UNCHANGED <<isLoading, currentUser, historicalAnalyses, authError,
                   storage, calls, now, phase, log>>

\* Faulty variant of canAnalyze: the image is not checked.
canAnalyzeWithoutImage(image, user) == user # Null

\* The guard of handleAnalyzeClick (line 63), negated.
canAnalyze(image, user) == image # Null /\ user # Null

\* handleAnalyzeClick (lines 62-73) up to its first await. The callback is
\* re-created whenever imagePreview, currentUser or historicalAnalyses change
\* (line 97), so the one that is clicked closes over the current values.
handleAnalyzeClick ==
    /\ phase = "ready"
    /\ Surface = "UserWorkspace"
    /\ IF ~canAnalyze(imagePreview, currentUser)
       THEN /\ error' = Some("Please select an image first.")
            /\ UNCHANGED <<analysisResult, isLoading, calls>>
       ELSE /\ Len(log) + Len(calls) < MaxAnalyses
            /\ isLoading' = TRUE
            /\ error' = Null
            /\ analysisResult' = Null
            /\ calls' = Append(calls,
                   [imagePreview |-> imagePreview,
                    currentUser |-> currentUser,
                    historicalAnalyses |-> historicalAnalyses,
                    pc |-> "fileToBase64"])
    /\ UNCHANGED <<imagePreview, currentUser, historicalAnalyses, authError,
                   storage, readers, now, phase, log>>

\* await fileToBase64(imagePreview) resolves (line 73), which it does for a
\* data URL only; line 74 and the call of analyzePlantHealth (line 75) follow.
fileToBase64Resolved(i) ==
    /\ phase = "ready"
    /\ i \in DOMAIN calls
    /\ calls[i].pc = "fileToBase64"
    /\ calls[i].imagePreview # Null
    /\ calls' = [calls EXCEPT ![i].pc = "analyzePlantHealth"]
    /\ UNCHANGED <<reactState, storage, readers, now, phase, log>>

\* const newAnalysis: HistoricalAnalysis = {...}  (lines 79-85), t being the
\* clock reading.
newAnalysis(c, result, t) ==
    [id |-> TemplateId("analysis-", t),
     userEmail |-> Val(c.currentUser).email,
     analysis |-> result,
     timestamp |-> toISOString(t),
     imageUrl |-> Val(c.imagePreview)]

\* const updatedAnalyses = [newAnalysis, ...historicalAnalyses]  (line 87),
\* historicalAnalyses being the value the callback closed over.
updatedAnalyses(record, c) == <<record>> \o c.historicalAnalyses

\* await analyzePlantHealth(...) resolves, the service having found d
\* (lines 75-89, 94-96). Date.now() (line 80) and new Date() (line 83) are
\* read in the same synchronous block and give the same reading, t.
analyzeResolved(i, d, t) ==
    /\ phase = "ready"
    /\ i \in DOMAIN calls
    /\ calls[i].pc = "analyzePlantHealth"
    /\ LET c == calls[i]
           result == analyzePlantHealth(fileToBase64(Val(c.imagePreview)),
                                        mimeTypeOf(Val(c.imagePreview)), d)
           record == newAnalysis(c, result, t)
           updated == updatedAnalyses(record, c)
       IN  /\ analysisResult' = Some(result)
           /\ historicalAnalyses' = updated
           /\ lsAnalyses' = Some(JSONstringify(updated))
           /\ log' = Append(log, [record |-> record, session |-> currentUser])
    /\ isLoading' = FALSE
    /\ calls' = RemoveAt(calls, i)
    /\ now' = t
    /\ UNCHANGED <<imagePreview, error, currentUser, authError, lsUsers,
                   lsCurrentUser, readers, phase>>

\* Faulty variant of awaitRejected: isLoading is cleared on success only (no
\* finally block).
awaitRejectedWithoutFinally(i, err) ==
    /\ phase = "ready"
    /\ i \in DOMAIN calls
    /\ error' = Some(errorMessage(err))
    /\ calls' = RemoveAt(calls, i)
    /\ UNCHANGED <<imagePreview, analysisResult, isLoading, currentUser,
                   historicalAnalyses, authError, storage, readers, now,
                   phase, log>>

\* Either await rejects with err (lines 91-96).
awaitRejected(i, err) ==
    /\ phase = "ready"
    /\ i \in DOMAIN calls
    /\ error' = Some(errorMessage(err))
    /\ isLoading' = FALSE
    /\ calls' = RemoveAt(calls, i)
    /\ UNCHANGED <<imagePreview, analysisResult, currentUser,
                   historicalAnalyses, authError, storage, readers, now,
                   phase, log>>

----------------------------------------------------------------------------
(* Specifications. *)

\* The whole program.
Next ==
    \/ Restore
    \/ Reload
    \/ \E email \in SoloEmails, password \in Passwords : handleLogin(email, password)
    \/ \E email \in SoloEmails, password \in Passwords, t \in ClockReadings :
          handleRegister(email, password, t)
    \/ handleLogout
    \/ \E file \in Files : handleImageSelect(file)
    \/ \E file \in Files, ok \in BOOLEAN : onloadend(file, ok)
    \/ handleAnalyzeClick
    \/ \E i \in 1..MaxAnalyses : fileToBase64Resolved(i)
    \/ \E i \in 1..MaxAnalyses, d \in Diseases, t \in ClockReadings :
          analyzeResolved(i, d, t)
    \/ \E i \in 1..MaxAnalyses, err \in Rejections : awaitRejected(i, err)

Spec == Init /\ [][Next]_vars

\* The session handlers alone (the user never opens the analysis workspace),
\* with every email and password of the auth form.
SessionNext ==
    \/ Restore
    \/ Reload
    \/ \E email \in Emails, password \in Passwords : handleLogin(email, password)
    \/ \E email \in Emails, password \in Passwords, t \in ClockReadings :
          handleRegister(email, password, t)
    \/ handleLogout

SpecSession == Init /\ [][SessionNext]_vars

\* The workspace handed from one user to another: two visitors register, log
\* in and out and use the workspace in turn, without a reload in between.
UserEmails == {"alice@x.com", "bob@x.com"}

HandoverNext ==
    \/ Restore
    \/ \E email \in UserEmails : handleLogin(email, "pw1")
    \/ \E email \in UserEmails, t \in ClockReadings :
          handleRegister(email, "pw1", t)
    \/ handleLogout
    \/ \E file \in Files : handleImageSelect(file)
    \/ \E file \in Files, ok \in BOOLEAN : onloadend(file, ok)
    \/ handleAnalyzeClick
    \/ \E i \in 1..MaxAnalyses : fileToBase64Resolved(i)
    \/ \E i \in 1..MaxAnalyses, d \in Diseases, t \in ClockReadings :
          analyzeResolved(i, d, t)
    \/ \E i \in 1..MaxAnalyses, err \in Rejections : awaitRejected(i, err)

SpecHandover == Init /\ [][HandoverNext]_vars

\* A pending await is settled: the promise of fileToBase64 or of
\* analyzePlantHealth resolves or rejects.
awaitSettled ==
    \/ \E i \in 1..MaxAnalyses : fileToBase64Resolved(i)
    \/ \E i \in 1..MaxAnalyses, d \in Diseases, t \in ClockReadings :
          analyzeResolved(i, d, t)
    \/ \E i \in 1..MaxAnalyses, err \in Rejections : awaitRejected(i, err)

\* The whole program, every pending promise being settled in the end: the
\* capabilities return or fail, and the event loop runs the continuation.
SpecFair == Spec /\ WF_vars(awaitSettled)
----------------------------------------------------------------------------
(* Claims C1-C7: the analysis pipeline and the history, checked under Spec. *)

inferenceInFlight == {i \in DOMAIN calls : calls[i].pc = "analyzePlantHealth"}
logRecords == [i \in DOMAIN log |-> log[i].record]
Reverse(q) == [i \in 1..Len(q) |-> q[Len(q) + 1 - i]]
\* The blob that holds history h: the key is absent until the first append.
persisted(h) == IF h = <<>> THEN Null ELSE Some(JSONstringify(h))

RECURSIVE IsSubSeq(_, _)
IsSubSeq(a, b) ==
    IF a = <<>> THEN TRUE
    ELSE IF b = <<>> THEN FALSE
    ELSE IF Head(a) = Head(b) THEN IsSubSeq(Tail(a), Tail(b))
    ELSE IsSubSeq(a, Tail(b))

\* C1: handleAnalyzeClick while an analysis is in progress starts no second
\* one: at most one inference call is in flight in every reachable state.
C1_SingleInferenceInFlight == Cardinality(inferenceInFlight) <= 1

\* C2: the history is append-only with one record per successful analysis:
\* once the app is mounted, every record ever created is in the in-memory
\* history and in the persisted blob, and the history holds as many records
\* as analyses have succeeded.
C2_HistoryKeepsEveryRecord ==
    (phase = "ready" /\ log # <<>>) =>
        /\ lsAnalyses # Null
        /\ \A i \in DOMAIN log :
              /\ log[i].record \in Range(historicalAnalyses)
              /\ log[i].record \in Range(JSONparse(Val(lsAnalyses)))
        /\ Len(historicalAnalyses) = Len(log)
        /\ Len(JSONparse(Val(lsAnalyses))) = Len(log)

\* C3: a successful analysis puts exactly one new record in front of the
\* previous history, which is otherwise unchanged, in memory and in the blob;
\* the record names the principal and the image of the invocation and carries
\* the result that was returned.
C3_SuccessPrependsOneRecord ==
    [][\A i \in DOMAIN calls, d \in Diseases, t \in ClockReadings :
          analyzeResolved(i, d, t) =>
              LET record == Head(historicalAnalyses')
              IN  /\ historicalAnalyses' = <<record>> \o historicalAnalyses
                  /\ lsAnalyses' = Some(JSONstringify(<<record>> \o historicalAnalyses))
                  /\ record.userEmail = Val(calls[i].currentUser).email
                  /\ record.imageUrl = Val(calls[i].imagePreview)
                  /\ analysisResult' = Some(record.analysis)
                  /\ record.analysis =
                        analyzePlantHealth(fileToBase64(record.imageUrl),
                                           mimeTypeOf(record.imageUrl), d)]_vars

\* C4: every record's userEmail is the email of the principal that was the
\* current user at the moment the record was created.
C4_RecordNamesSessionAtCreation ==
    \A i \in DOMAIN log :
        /\ log[i].session # Null
        /\ log[i].record.userEmail = Val(log[i].session).email

C6_FailureLeavesNoResult ==
    [][\A i \in DOMAIN calls, err \in Rejections :
          awaitRejected(i, err) =>
              /\ error' # Null
              /\ analysisResult' = Null
              /\ isLoading' = FALSE
              /\ historicalAnalyses' = calls[i].historicalAnalyses
              /\ lsAnalyses' = persisted(calls[i].historicalAnalyses)]_vars

\* C7: handleAnalyzeClick with no image selected or no current user only sets
\* the error "Please select an image first.": loading does not start, no call
\* is made, and the history, the image, the result and the session are
\* unchanged.
C7_PreconditionFailureOnlySetsError ==
    [][(handleAnalyzeClick /\ (imagePreview = Null \/ currentUser = Null)) =>
          /\ error' = Some("Please select an image first.")
          /\ isLoading' = isLoading
          /\ calls' = calls
          /\ UNCHANGED <<imagePreview, analysisResult, currentUser,
                         historicalAnalyses, storage, log>>]_vars

C7_RejectedWithoutImage ==
    /\ Surface = "UserWorkspace"
    /\ imagePreview = Null
    /\ error = Some("Please select an image first.")
    /\ ~isLoading
    /\ calls = <<>>

----------------------------------------------------------------------------
(* Claims C8-C10: the account registry and login, checked under SpecSession. *)

UniqueEmails(users) ==
    \A i, j \in DOMAIN users : users[i].email = users[j].email => i = j

\* C8: no two Credential Records share an email; a register call with an
\* email not yet present appends exactly one record, with that email and role
\* user; no step updates or deletes a record.
C8_RegistryUniqueAndAppendOnly ==
    /\ UniqueEmails(readUsers)
    /\ [][/\ UniqueEmails(readUsers')
          /\ \/ readUsers' = readUsers
             \/ /\ Len(readUsers') = Len(readUsers) + 1
                /\ SubSeq(readUsers', 1, Len(readUsers)) = readUsers
          /\ \A email \in Emails, password \in Passwords, t \in ClockReadings :
                (handleRegister(email, password, t)
                 /\ \A i \in DOMAIN readUsers : readUsers[i].email # email) =>
                    /\ Len(readUsers') = Len(readUsers) + 1
                    /\ readUsers'[Len(readUsers')].email = email
                    /\ readUsers'[Len(readUsers')].password = password
                    /\ readUsers'[Len(readUsers')].role = "user"]_vars

C8_TwoAccountsRegistered == Len(readUsers) = 3

\* C9: register with an email already in the registry fails: the registry
\* blob is unchanged, the session stays anonymous, no session marker is
\* written and the auth error is "An account with this email already exists.".
C9_DuplicateRegisterFails ==
    [][\A email \in Emails, password \in Passwords, t \in ClockReadings :
          (handleRegister(email, password, t)
           /\ \E i \in DOMAIN readUsers : readUsers[i].email = email) =>
              /\ lsUsers' = lsUsers
              /\ currentUser = Null /\ currentUser' = Null
              /\ lsCurrentUser = Null /\ lsCurrentUser' = Null
              /\ authError' = Some("An account with this email already exists.")]_vars

C9_DuplicateRejected ==
    /\ authError = Some("An account with this email already exists.")
    /\ Len(readUsers) = 2
    /\ currentUser = Null

\* C10: login authenticates only when a registry record matches both email
\* and password; then the current user is that record's {id, email, role},
\* the same value is the session marker and the auth error is cleared;
\* otherwise the session stays anonymous, no marker is written and the auth
\* error is "Invalid email or password.".
C10_LoginMatchesBothFields ==
    [][\A email \in Emails, password \in Passwords :
          handleLogin(email, password) =>
              LET hits == {i \in DOMAIN readUsers :
                              /\ readUsers[i].email = email
                              /\ readUsers[i].password = password}
              IN  IF hits # {}
                  THEN /\ \E i \in hits :
                             currentUser' = Some([id |-> readUsers[i].id,
                                                  email |-> readUsers[i].email,
                                                  role |-> readUsers[i].role])
                       /\ lsCurrentUser' = Some(JSONstringify(Val(currentUser')))
                       /\ authError' = Null
                  ELSE /\ currentUser = Null /\ currentUser' = Null
                       /\ lsCurrentUser = Null /\ lsCurrentUser' = Null
                       /\ authError' = Some("Invalid email or password.")]_vars

\* alice is the current user although bob registered after her: her session
\* comes from a login.
C10_LoggedInByLogin ==
    /\ Len(readUsers) = 3
    /\ readUsers[3].email = "bob@x.com"
    /\ currentUser # Null
    /\ Val(currentUser).email = "alice@x.com"
    /\ lsCurrentUser = Some(JSONstringify(Val(currentUser)))
    /\ authError = Null

----------------------------------------------------------------------------
(* Claims C11, C12: auto-login and the seeded admin, checked under          *)
(* SpecSession.                                                            *)

\* The principal of the registry record with this email.
principalOf(users, email) ==
    LET i == CHOOSE i \in DOMAIN users : users[i].email = email
    IN  [id |-> users[i].id, email |-> users[i].email, role |-> users[i].role]

\* C11: a successful register leaves the session authenticated as the newly
\* created principal, of role user, which is also the session marker, with no
\* login step; the record it stored is never changed afterwards, and a later
\* successful login with that email and password gives the principal of that
\* record, hence the same principal.
C11_RegisterLogsInAsNewPrincipal ==
    [][/\ \A email \in Emails, password \in Passwords, t \in ClockReadings :
             (handleRegister(email, password, t)
              /\ \A i \in DOMAIN readUsers : readUsers[i].email # email) =>
                 LET created == readUsers'[Len(readUsers')]
                 IN  /\ Len(readUsers') = Len(readUsers) + 1
                     /\ created.email = email /\ created.password = password
                     /\ currentUser' = Some([id |-> created.id, email |-> email,
                                             role |-> "user"])
                     /\ currentUser' = Some(principalOf(readUsers', email))
                     /\ lsCurrentUser' = Some(JSONstringify(Val(currentUser')))
       /\ \A i \in DOMAIN readUsers :
             i \in DOMAIN readUsers' /\ readUsers'[i] = readUsers[i]
       /\ \A email \in Emails, password \in Passwords :
             (handleLogin(email, password)
              /\ \E i \in DOMAIN readUsers : /\ readUsers[i].email = email
                                            /\ readUsers[i].password = password) =>
                 /\ currentUser' = Some(principalOf(readUsers, email))
                 /\ lsCurrentUser' = Some(JSONstringify(Val(currentUser')))]_vars

\* bob is logged in although alice registered after him: his session comes
\* from a login after his registration, and is the principal of his record.
C11_RegisteredThenLoggedIn ==
    /\ Len(readUsers) = 3
    /\ readUsers[2].email = "bob@x.com"
    /\ readUsers[3].email = "alice@x.com"
    /\ currentUser = Some([id |-> readUsers[2].id, email |-> "bob@x.com",
                           role |-> "user"])
    /\ lsCurrentUser = Some(JSONstringify(Val(currentUser)))

\* C12: the registry always holds an admin-role record: the blob exists from
\* module load on, its first record is the seeded admin, and no other record
\* has role admin.
C12_RegistryKeepsTheOneAdmin ==
    /\ lsUsers # Null
    /\ readUsers # <<>>
    /\ readUsers[1] = adminUser
    /\ \A i \in DOMAIN readUsers : readUsers[i].role = "admin" => i = 1

C12_AdminAfterRegistrations ==
    /\ Len(readUsers) = 3
    /\ Surface = "AdminDashboard"
    /\ currentUser = Some(userData(adminUser))

----------------------------------------------------------------------------
(* Claims C13, C14: record ids and the end of loading. *)

\* C13: record ids are unique and strictly increasing in creation order, and
\* the history is ordered newest first (ids strictly decreasing from the
\* front), also when two analyses complete at the same clock reading.
C13_IdsStrictlyIncreasing ==
    /\ \A i, j \in DOMAIN log :
          i < j => log[i].record.id.n < log[j].record.id.n
    /\ \A i, j \in DOMAIN historicalAnalyses :
          i < j => historicalAnalyses[i].id.n > historicalAnalyses[j].id.n

\* C14: every analysis that starts loading leaves it: the step that settles
\* an analysis clears isLoading and leaves a result (success) or an error
\* (failure), and, the promises being settled in the end, isLoading is
\* eventually false whenever it is true.
C14_LoadingAlwaysEnds ==
    /\ [][/\ \A i \in DOMAIN calls, d \in Diseases, t \in ClockReadings :
                analyzeResolved(i, d, t) =>
                    isLoading' = FALSE /\ analysisResult' # Null
          /\ \A i \in DOMAIN calls, err \in Rejections :
                awaitRejected(i, err) => isLoading' = FALSE /\ error' # Null
          /\ (isLoading' /\ phase' = "ready") => calls' # <<>>]_vars
    /\ (isLoading ~> ~isLoading)

\* An analysis has failed: loading is over and the error is shown.
C14_FailedAndNotLoading ==
    /\ ~isLoading
    /\ calls = <<>>
    /\ error = Some("Inference failed")
    /\ analysisResult = Null

----------------------------------------------------------------------------
(* Claims C15..C18: logout, restart, image selection, persisted state. *)

\* C15 (the step): logout makes the session anonymous and removes the
\* persisted marker; the registry, the history in memory and persisted, and
\* the rest of the state are unchanged.
C15_LogoutFrame ==
    [][handleLogout =>
          /\ currentUser' = Null
          /\ lsCurrentUser' = Null
          /\ UNCHANGED <<lsUsers, historicalAnalyses, lsAnalyses, imagePreview,
                         analysisResult, isLoading, error, authError>>]_vars

\* C15 (the consequence): a record created in a user's session that has
\* since been logged out is in the history the admin sees after logging in.
C15_RecordSurvivesLogout ==
    (phase = "ready" /\ Surface = "AdminDashboard") =>
        \A k \in DOMAIN log :
            (log[k].session # Null /\ Val(log[k].session).role = "user") =>
                log[k].record \in Range(analysesShown)

\* C16: a restart keeps the persisted state and starts anonymous; restore
\* then sets the session to exactly the persisted principal (the registry is
\* not consulted) and the history to exactly the persisted history. Before
\* the restart the marker held the session and the blob held the history, so
\* the same principal (or anonymous after logout) and the same records come
\* back.
C16_RestartRoundTrip ==
    [][/\ Reload =>
            /\ currentUser' = Null
            /\ lsCurrentUser' = lsCurrentUser
            /\ lsAnalyses' = lsAnalyses
            /\ readUsers' = readUsers
            /\ lsCurrentUser = (IF currentUser = Null THEN Null
                                ELSE Some(JSONstringify(Val(currentUser))))
            /\ historicalAnalyses # <<>> =>
                  lsAnalyses = Some(JSONstringify(historicalAnalyses))
       /\ Restore =>
            /\ currentUser' = (IF lsCurrentUser = Null THEN Null
                               ELSE Some(JSONparse(Val(lsCurrentUser))))
            /\ historicalAnalyses' = (IF lsAnalyses = Null THEN <<>>
                                      ELSE JSONparse(Val(lsAnalyses)))
            /\ UNCHANGED storage]_vars

\* The page has been reloaded after a user made two records: the memory is
\* empty, the marker and the history blob are there for restore to read.
C16_RestartedWithPersistedState ==
    /\ phase = "mounting"
    /\ currentUser = Null /\ historicalAnalyses = <<>>
    /\ lsCurrentUser # Null
    /\ JSONparse(Val(lsCurrentUser)).email = "alice@x.com"
    /\ lsAnalyses # Null /\ Len(JSONparse(Val(lsAnalyses))) = 2

\* C17: an image can be selected in every state of the workspace; when the
\* file has been read the image is its data URL, the prior result and error
\* are gone, and session, registry and history are unchanged.
C17_SelectImageResetsWorkspace ==
    /\ [][\A file \in Files :
            /\ handleImageSelect(file) => UNCHANGED <<reactState, storage>>
            /\ onloadend(file, TRUE) =>
                  /\ imagePreview' = Some(readAsDataURL(file))
                  /\ analysisResult' = Null
                  /\ error' = Null
                  /\ UNCHANGED <<currentUser, historicalAnalyses, storage>>]_vars
    /\ [](\A file \in Files :
            (phase = "ready" /\ Surface = "UserWorkspace") =>
                ENABLED handleImageSelect(file))

\* A new image was read while an analysis of the previous image is pending
\* and after an earlier analysis had given a result.
C17_ReselectedWhileAnalyzing ==
    /\ imagePreview # Null
    /\ Len(calls) = 1 /\ isLoading
    /\ calls[1].imagePreview # imagePreview
    /\ Len(log) = 1
    /\ analysisResult = Null /\ error = Null

\* C18: once restore has run, the persisted marker is present exactly when a
\* user is logged in and then holds the current user, and the persisted
\* history holds the history in memory once a record has been appended.
C18_PersistedAgreesWithMemory ==
    phase = "ready" =>
        /\ lsCurrentUser = (IF currentUser = Null THEN Null
                            ELSE Some(JSONstringify(Val(currentUser))))
        /\ log # <<>> => lsAnalyses = Some(JSONstringify(historicalAnalyses))

\* Logged out, two records created, of which the history (in memory and
\* persisted alike) holds one.
C18_AgreeAfterLogout ==
    /\ phase = "ready"
    /\ currentUser = Null /\ lsCurrentUser = Null
    /\ Len(log) = 2 /\ Len(historicalAnalyses) = 1
    /\ lsAnalyses = Some(JSONstringify(historicalAnalyses))

----------------------------------------------------------------------------
(* Claims C19, C20: whose result the workspace shows. *)

\* C19: the result shown in the workspace comes from an analysis the current
\* user started: a user who takes over the workspace after another one has
\* logged out is shown nothing of the other's session.
C19_WorkspaceShowsOwnResult ==
    (phase = "ready" /\ Surface = "UserWorkspace" /\ analysisResult # Null) =>
        \E k \in DOMAIN log :
            /\ log[k].record.analysis = Val(analysisResult)
            /\ log[k].record.userEmail = Val(currentUser).email

\* C20 (result): a result that is shown was computed from the image that is
\* shown, also when a new image is read while the analysis is pending.
C20_ResultBelongsToImage ==
    (phase = "ready" /\ analysisResult # Null) =>
        /\ imagePreview # Null
        /\ Val(analysisResult).request =
              [image |-> fileToBase64(Val(imagePreview)),
               mimeType |-> mimeTypeOf(Val(imagePreview))]

\* C20 (flag): isLoading is true exactly when an invocation of the analysis
\* is pending.
C20_LoadingIffInFlight ==
    phase = "ready" => (isLoading <=> calls # <<>>)
====
